---- MODULE Spec2Model ----
(***************************************************************************)
(* Model of the peer node of src/main.py: class P2PNode with its           *)
(* CryptoManager and AudioManager, two nodes exchanging UDP datagrams.     *)
(* Every public method and the packet handler is one atomic action.        *)
(* pyaudio is installed (AudioManager.audio is set, so start_recording     *)
(* sets recording) and the application has registered its callbacks.       *)
(* Spec explores one node against every datagram its socket can receive;   *)
(* SpecPair explores two nodes that only receive what the other wrote.     *)
(***************************************************************************)
EXTENDS Integers, Sequences, FiniteSets, TLC

\* ----------------------------------------------------------------- bounds
\* Datagrams that can be in flight at once; a datagram written while the
\* network already holds MaxNet others is lost (UDP gives no delivery).
MaxNet == 1
\* The longest plaintext handed to a CryptoManager on its own.
MaxLen == 2

\* ------------------------------------------------------------ value sets
\* The nodes that run the program; a node's username names it.
Nodes == {"A", "B"}
\* Usernames that occur as peers, senders and call partners.  "C" is a
\* third party that runs no modelled node.
Users == {"A", "B", "C"}
\* Python's None (call_partner, a missing return value).
None == "None"
\* An address on which sendto raises (unresolvable host, port out of range).
BadAddr == "bad"
\* An address (ip, port) is named by the user listening on it, or is BadAddr.
Addr == Users \cup {BadAddr}

VARIABLES
    peers,               \* peers[n]: dict username -> address
    active_connections,  \* active_connections[n]: dict username -> bool
    in_call,             \* in_call[n]
    call_partner,        \* call_partner[n]: a username or None
    recording,           \* recording[n]: AudioManager.recording
    running,             \* running[n]: the flag _listen tests
    closed,              \* closed[n]: socket.close() has been called
    loop,                \* loop[n]: where the thread of _listen is
    pyaudio,             \* the import of pyaudio succeeded (AudioManager.audio)
    race,                \* an operation and a handler running statement by statement
    crypto,              \* a CryptoManager at work on one text
    net,                 \* datagrams in flight
    last                 \* the last operation: its input, the state before, its outcome

vars == <<peers, active_connections, in_call, call_partner, recording, running,
          closed, loop, pyaudio, race, crypto, net, last>>

\* ------------------------------------------------------------- strings
\* A string is a sequence of symbols; an encoding prepends its marker.
Str(s) == <<s>>

DECRYPTION_FAILED == Str("[DECRYPTION FAILED]")

\* base64.b64encode / base64.urlsafe_b64encode
b64encode(data) == <<"b64">> \o data

\* base64.b64decode: the bytes, or an error for text that is no base64
B64Error == Str("binascii.Error")
b64decode(text) ==
    IF Len(text) >= 1 /\ text[1] = "b64" THEN Tail(text) ELSE B64Error

\* The key of node n: PBKDF2 over the password and os.urandom(16), so two
\* nodes never hold the same key.
key(n) == n

\* Fernet(key).encrypt / Fernet(key).decrypt (None: InvalidToken)
FernetEncrypt(k, data) == <<"fernet", k>> \o data
FernetDecrypt(k, token) ==
    IF Len(token) >= 2 /\ token[1] = "fernet" /\ token[2] = k
    THEN SubSeq(token, 3, Len(token))
    ELSE Str(None)
\* FernetOk without the authentication of the token under the key.
FernetOk_unauthenticated(k, token) == Len(token) >= 2 /\ token[1] = "fernet"
FernetOk(k, token) == Len(token) >= 2 /\ token[1] = "fernet" /\ token[2] = k

\* CryptoManager.encrypt
encrypt(k, message) == b64encode(FernetEncrypt(k, message))

\* decrypt without its try/except: the exception reaches the caller.
decrypt_uncaught(k, encrypted_message) ==
    IF b64decode(encrypted_message) = B64Error
    THEN B64Error
    ELSE FernetDecrypt(k, b64decode(encrypted_message))

\* CryptoManager.decrypt: every exception becomes the sentinel text
decrypt(k, encrypted_message) ==
    LET encrypted_data == b64decode(encrypted_message)
    IN  IF encrypted_data # B64Error /\ FernetOk(k, encrypted_data)
        THEN FernetDecrypt(k, encrypted_data)
        ELSE DECRYPTION_FAILED

\* ------------------------------------------------------------- packets
NoPkt == [type |-> None, sender |-> None, recipient |-> None, message |-> <<>>]

\* The packet dict of send_message (the timestamp is never read).
Packet(t, s, r, m) == [type |-> t, sender |-> s, recipient |-> r, message |-> m]

\* A datagram in flight: destination address, packet, and the operation
\* that wrote it ("external": a sender that is no modelled node).
Datagram(a, p, op) == [dst |-> a, pkt |-> p, by |-> op]

\* ---------------------------------------------------------------- dicts
Has(d, k) == k \in DOMAIN d
\* dict.setdefault in place of the assignment: a key that is present
\* keeps its value.
Put_if_absent(d, k, v) == [x \in DOMAIN d \cup {k} |-> IF x \in DOMAIN d THEN d[x] ELSE v]
Put(d, k, v) == [x \in DOMAIN d \cup {k} |-> IF x = k THEN v ELSE d[x]]
Del(d, k) == [x \in DOMAIN d \ {k} |-> d[x]]
EmptyDict == [x \in {} |-> None]

\* ------------------------------------------------------- snapshots, last
Snapshot(n) ==
    [in_call |-> in_call[n], call_partner |-> call_partner[n],
     recording |-> recording[n], peers |-> peers[n],
     active_connections |-> active_connections[n],
     running |-> running[n], closed |-> closed[n], loop |-> loop[n]]

\* The outcome of an operation on node n: the node's call state after it,
\* its return value, the datagrams written, the callbacks invoked
\* (call_callback, message_callback) and the audio played.
Outcome(ic, cp, rec, ret, sent, cb, mcb, played) ==
    [in_call |-> ic, call_partner |-> cp, recording |-> rec, ret |-> ret,
     sent |-> sent, cb |-> cb, mcb |-> mcb, played |-> played]

Same(n, ret) ==
    Outcome(in_call[n], call_partner[n], recording[n], ret, {}, <<>>, <<>>, <<>>)

NoSnap ==
    [in_call |-> FALSE, call_partner |-> None, recording |-> FALSE,
     peers |-> EmptyDict, active_connections |-> EmptyDict,
     running |-> TRUE, closed |-> FALSE, loop |-> "reading"]
NoOut == Outcome(FALSE, None, FALSE, None, {}, <<>>, <<>>, <<>>)

\* The thread of _listen: "reading" is in the loop with the socket open;
\* once the socket is closed its recvfrom either raises ("raising") or, when
\* it was already blocked in the kernel, stays pending until a datagram
\* arrives ("pending": Linux keeps a blocked read alive across close());
\* "exited" has left the loop.
LoopStates == {"reading", "raising", "pending", "exited"}

\* No operation runs statement by statement; no text is under the cipher.
NoRace ==
    [op |-> None, arg |-> None, pc |-> 0, tok |-> None, hpc |-> 0,
     start |-> [in_call |-> FALSE, call_partner |-> None, recording |-> FALSE],
     ok |-> FALSE]
NoCrypto == [ctx |-> None, by |-> None, plain |-> <<>>, text |-> <<>>, stage |-> "none"]

\* stop_recording that leaves the flag as it is.
stop_recording_skipped(n) == recording[n]
\* The text of a shared link without its label.
link_text_bare(decrypted_link) == decrypted_link

\* AudioManager.start_recording, stop_recording and play_audio: without
\* pyaudio (self.audio is None) they return at once.
start_recording(n) == IF pyaudio THEN TRUE ELSE recording[n]
stop_recording(n) == FALSE
play_audio(audio_data) == IF pyaudio THEN <<audio_data>> ELSE <<>>

\* P2PNode.__init__: no peers, no call, the socket bound, the thread of
\* _listen started, nothing in flight; pyaudio is installed or not.
InitNode ==
    /\ peers = [n \in Nodes |-> EmptyDict]
    /\ active_connections = [n \in Nodes |-> EmptyDict]
    /\ in_call = [n \in Nodes |-> FALSE]
    /\ call_partner = [n \in Nodes |-> None]
    /\ recording = [n \in Nodes |-> FALSE]
    /\ running = [n \in Nodes |-> TRUE]
    /\ closed = [n \in Nodes |-> FALSE]
    /\ loop = [n \in Nodes |-> "reading"]
    /\ pyaudio \in BOOLEAN
    /\ race = NoRace
    /\ net = {}
    /\ last = [op |-> "init", node |-> None, arg |-> None, addr |-> None,
               pkt |-> NoPkt, by |-> None, resp |-> None, pre |-> NoSnap,
               out |-> NoOut]

Init == InitNode /\ crypto = NoCrypto

\* send_message without the test of lines 200-202: a recipient that is not
\* in peers is written to under its own name.
send_message_no_lookup(n, recipient, message, msg_type, by) ==
    LET encrypted_msg == encrypt(key(n), message)
        packet == Packet(msg_type, n, recipient, encrypted_msg)
        address == IF Has(peers[n], recipient) THEN peers[n][recipient] ELSE recipient
    IN  IF address = BadAddr \/ closed[n]
        THEN [ret |-> FALSE, sent |-> {}]
        ELSE [ret |-> TRUE, sent |-> {Datagram(address, packet, by)}]

\* send_message whose sendto never raises.
send_message_no_raise(n, recipient, message, msg_type, by) ==
    IF ~Has(peers[n], recipient)
    THEN [ret |-> FALSE, sent |-> {}]
    ELSE [ret |-> TRUE,
          sent |-> {Datagram(peers[n][recipient],
                             Packet(msg_type, n, recipient, encrypt(key(n), message)),
                             by)}]

\* send_message with one retry: a second copy of the datagram follows.
send_message_twice(n, recipient, message, msg_type, by) ==
    IF ~Has(peers[n], recipient) \/ peers[n][recipient] = BadAddr \/ closed[n]
    THEN [ret |-> FALSE, sent |-> {}]
    ELSE [ret |-> TRUE,
          sent |-> {Datagram(peers[n][recipient],
                             Packet(msg_type, n, recipient, encrypt(key(n), message)),
                             b) : b \in {by, "retry"}}]

\* end_call without the early return of lines 250-251, reporting the end
\* of the call to call_callback.
end_call_notifying(n) ==
    Outcome(FALSE, None, FALSE, None, {}, <<<<"ended", call_partner[n]>>>>, <<>>, <<>>)

\* The test of line 306 without the comparison of the sender.
audio_accepted_any_sender(n, sender) == in_call[n]

\* ------------------------------------------------------------ P2PNode
\* P2PNode.send_message: the return value and the datagram written.  `by`
\* names the caller and is carried on the datagram for reference only.
send_message(n, recipient, message, msg_type, by) ==
    IF ~Has(peers[n], recipient)
    THEN [ret |-> FALSE, sent |-> {}]
    ELSE LET encrypted_msg == encrypt(key(n), message)
             packet == Packet(msg_type, n, recipient, encrypted_msg)
         IN  IF peers[n][recipient] = BadAddr \/ closed[n]
             THEN [ret |-> FALSE, sent |-> {}]
             ELSE [ret |-> TRUE,
                   sent |-> {Datagram(peers[n][recipient], packet, by)}]

Bool(b) == IF b THEN "True" ELSE "False"

\* start_call that takes the request as sent whatever send_message returns.
start_call_optimistic(n, recipient) ==
    IF in_call[n]
    THEN Same(n, "False")
    ELSE Outcome(in_call[n], recipient, recording[n],
                 Bool(send_message(n, recipient, Str("call_request"), "call",
                                   "start_call").ret),
                 send_message(n, recipient, Str("call_request"), "call",
                              "start_call").sent,
                 <<>>, <<>>, <<>>)

\* P2PNode.start_call
start_call(n, recipient) ==
    IF in_call[n]
    THEN Same(n, "False")
    ELSE LET s == send_message(n, recipient, Str("call_request"), "call", "start_call")
         IN  Outcome(in_call[n],
                     IF s.ret THEN recipient ELSE call_partner[n],
                     recording[n], Bool(s.ret), s.sent, <<>>, <<>>, <<>>)

\* P2PNode.accept_call (AudioManager.start_recording sets recording)
accept_call(n, caller) ==
    IF in_call[n]
    THEN Same(n, "False")
    ELSE LET s == send_message(n, caller, Str("call_accepted"), "call", "accept_call")
         IN  Outcome(TRUE, caller, start_recording(n), "True", s.sent, <<>>, <<>>, <<>>)

\* P2PNode.end_call (AudioManager.stop_recording clears recording)
end_call(n) ==
    IF ~in_call[n]
    THEN Same(n, None)
    ELSE LET s == IF call_partner[n] # None
                  THEN send_message(n, call_partner[n], Str("call_ended"), "call", "end_call")
                  ELSE [ret |-> FALSE, sent |-> {}]
         IN  Outcome(FALSE, None, stop_recording(n), None, s.sent, <<>>, <<>>, <<>>)

\* P2PNode._send_audio, the callback of the recording thread
send_audio(n, audio_data) ==
    IF in_call[n] /\ call_partner[n] # None
    THEN LET audio_b64 == b64encode(audio_data)
             s == send_message(n, call_partner[n], audio_b64, "audio", "_send_audio")
         IN  Outcome(in_call[n], call_partner[n], recording[n], None, s.sent,
                     <<>>, <<>>, <<>>)
    ELSE Same(n, None)

\* P2PCommApp.on_call_event, the registered call_callback.  For "incoming"
\* the user answers the dialog: resp "yes" accepts, "no" rejects; resp
\* "none" is a callback that only records the event.
on_call_event(n, event_type, peer, resp) ==
    IF event_type = "incoming" /\ resp = "yes"
    THEN LET a == accept_call(n, peer)
         IN  Outcome(a.in_call, a.call_partner, a.recording, None, a.sent,
                     <<<<event_type, peer>>>>, <<>>, <<>>)
    ELSE IF event_type = "incoming" /\ resp = "no"
    THEN LET s == send_message(n, peer, Str("call_rejected"), "call", "on_call_event")
         IN  Outcome(in_call[n], call_partner[n], recording[n], None, s.sent,
                     <<<<event_type, peer>>>>, <<>>, <<>>)
    ELSE Outcome(in_call[n], call_partner[n], recording[n], None, {},
                 <<<<event_type, peer>>>>, <<>>, <<>>)

\* The text of a shared link handed to message_callback
link_text(decrypted_link) == Str("Shared link: ") \o decrypted_link

\* The test of the audio branch of _handle_packet
audio_accepted(n, sender) == in_call[n] /\ sender = call_partner[n]

\* P2PNode._handle_packet
handle_packet(n, packet, resp) ==
    LET msg_type == packet.type
        sender == packet.sender
        message == packet.message
    IN  IF msg_type = "text"
        THEN Outcome(in_call[n], call_partner[n], recording[n], None, {}, <<>>,
                     <<<<sender, decrypt(key(n), message), "received">>>>, <<>>)
        ELSE IF msg_type = "call"
        THEN IF message = Str("call_request")
             THEN on_call_event(n, "incoming", sender, resp)
             ELSE IF message = Str("call_accepted")
             THEN Outcome(TRUE, call_partner[n], start_recording(n), None, {},
                          <<<<"accepted", sender>>>>, <<>>, <<>>)
             ELSE IF message = Str("call_ended")
             THEN Outcome(FALSE, None, stop_recording(n), None, {},
                          <<<<"ended", sender>>>>, <<>>, <<>>)
             ELSE Same(n, None)
        ELSE IF msg_type = "audio"
        THEN IF audio_accepted(n, sender)
             THEN LET audio_data == b64decode(message)
                  IN  IF audio_data = B64Error
                      THEN Same(n, None)
                      ELSE Outcome(in_call[n], call_partner[n], recording[n], None,
                                   {}, <<>>, <<>>, play_audio(audio_data))
             ELSE Same(n, None)
        ELSE IF msg_type = "link"
        THEN Outcome(in_call[n], call_partner[n], recording[n], None, {}, <<>>,
                     <<<<sender, link_text(decrypt(key(n), message)), "link">>>>,
                     <<>>)
        ELSE Same(n, None)


\* ------------------------------------------------------------- network
\* socket.sendto: the datagrams addressed to a node join those in flight,
\* or are lost when MaxNet are in flight already; a datagram for any other
\* host leaves the system.
Transmit(inflight, sent) ==
    LET kept == {d \in sent : d.dst \in Nodes}
    IN  IF Cardinality(inflight \cup kept) <= MaxNet THEN inflight \cup kept ELSE inflight

\* -------------------------------------------------------------- inputs
\* The node whose operations Spec explores; every other host, the second
\* node included, is its environment there.
Focus == "A"
\* The usernames a node's user names as peer, recipient or caller.
Others(n) == Users \ {n}
\* The addresses the user enters for peer u: where u listens, or one on
\* which sendto raises.
AddrsOf(u) == {u, BadAddr}
\* The audio chunk the recording thread reads.
Chunk == Str("pcm")
\* The answers of the user to the incoming-call dialog.
Resps == {"none", "yes", "no"}
\* The control tokens _handle_packet and on_call_event name.
Tokens == {"call_request", "call_accepted", "call_ended", "call_rejected"}
\* Datagrams that reach node n's socket from other hosts (any host can
\* write to a UDP port): call packets carrying a control token as such,
\* the packets another instance of this program writes (its send_message
\* encrypts every message under its own key), and text, link and audio
\* packets.
ExternalFrom(n, s) ==
    {Packet("call", s, n, m) :
        m \in {Str(t) : t \in Tokens} \cup {encrypt(key(s), Str(t)) : t \in Tokens}}
    \cup {Packet(ty, s, n, m) :
            ty \in {"text", "link"}, m \in {Str("hello"), encrypt(key(s), Str("hello"))}}
    \cup {Packet("audio", s, n, m) : m \in {b64encode(Chunk), Str("hello")}}
External(n) == UNION {ExternalFrom(n, s) : s \in Others(n)}

\* Datagrams that json.loads rejects, or whose JSON object lacks a field
\* (packet.get returns None for it).
NotJson == Packet("<not json>", None, None, <<>>)
Missing == Str("<missing>")
Malformed(n) ==
    {NotJson}
    \cup {Packet(None, "B", n, Str("call_ended"))}
    \cup {Packet("call", None, n, Str(t)) : t \in {"call_accepted", "call_ended"}}
    \cup {Packet("audio", None, n, b64encode(Chunk))}
    \cup {Packet(ty, "B", n, Missing) : ty \in {"text", "call", "audio"}}

\* The body of the loop of _listen for one datagram: json.loads, then
\* _handle_packet; every exception is logged and the loop goes on.
listen_once(n, data, resp) ==
    IF data = NotJson THEN Same(n, None) ELSE handle_packet(n, data, resp)

\* ------------------------------------------------------------- actions
Record(n, op, arg, pkt, by, resp, o) ==
    [op |-> op, node |-> n, arg |-> arg, addr |-> None, pkt |-> pkt, by |-> by,
     resp |-> resp, pre |-> Snapshot(n), out |-> o]

\* The assignments of an operation of node n with outcome o, having read
\* the datagrams `read`.
ApplyState(n, o, read) ==
    /\ in_call' = [in_call EXCEPT ![n] = o.in_call]
    /\ call_partner' = [call_partner EXCEPT ![n] = o.call_partner]
    /\ recording' = [recording EXCEPT ![n] = o.recording]
    /\ net' = Transmit(net \ read, o.sent)
    /\ UNCHANGED <<peers, active_connections, pyaudio, race, crypto>>

\* An operation called by the application or the recording thread.
Apply(n, o, read) ==
    /\ ApplyState(n, o, read)
    /\ UNCHANGED <<running, closed, loop>>

\* _listen without its while: the thread ends after one datagram.
Received_once(n, o, read) ==
    /\ ApplyState(n, o, read)
    /\ loop' = [loop EXCEPT ![n] = "exited"]
    /\ UNCHANGED <<running, closed>>

\* One turn of the loop of _listen: after the handler the loop tests
\* self.running and reads again or exits.
Received(n, o, read) ==
    /\ ApplyState(n, o, read)
    /\ loop' = [loop EXCEPT ![n] = IF running[n] THEN "reading" ELSE "exited"]
    /\ UNCHANGED <<running, closed>>

\* P2PNode.add_peer
AddPeer(n, u, a) ==
    /\ peers' = [peers EXCEPT ![n] = Put(peers[n], u, a)]
    /\ active_connections' =
           [active_connections EXCEPT ![n] = Put(active_connections[n], u, TRUE)]
    /\ last' = [Record(n, "add_peer", u, NoPkt, None, None, Same(n, None))
                    EXCEPT !.addr = a]
    /\ UNCHANGED <<in_call, call_partner, recording, running, closed, loop,
                   pyaudio, race, crypto, net>>

\* P2PNode.remove_peer
RemovePeer(n, u) ==
    /\ IF Has(peers[n], u)
       THEN /\ peers' = [peers EXCEPT ![n] = Del(peers[n], u)]
            /\ active_connections' =
                   [active_connections EXCEPT ![n] = Del(active_connections[n], u)]
       ELSE UNCHANGED <<peers, active_connections>>
    /\ last' = Record(n, "remove_peer", u, NoPkt, None, None, Same(n, None))
    /\ UNCHANGED <<in_call, call_partner, recording, running, closed, loop,
                   pyaudio, race, crypto, net>>

\* The outcome of a send_message the application calls.
send_outcome(n, r, message, msg_type, by) ==
    LET s == send_message(n, r, message, msg_type, by)
    IN  Outcome(in_call[n], call_partner[n], recording[n], Bool(s.ret), s.sent,
                <<>>, <<>>, <<>>)

\* P2PNode.send_message called by the application with a text
SendMessage(n, r) ==
    /\ Apply(n, send_outcome(n, r, Str("hello"), "text", "send_message"), {})
    /\ last' = Record(n, "send_message", r, NoPkt, None, None,
                      send_outcome(n, r, Str("hello"), "text", "send_message"))

\* P2PNode.share_link
ShareLink(n, r) ==
    /\ Apply(n, send_outcome(n, r, Str("url"), "link", "share_link"), {})
    /\ last' = Record(n, "share_link", r, NoPkt, None, None,
                      send_outcome(n, r, Str("url"), "link", "share_link"))

StartCall(n, r) ==
    /\ Apply(n, start_call(n, r), {})
    /\ last' = Record(n, "start_call", r, NoPkt, None, None, start_call(n, r))

AcceptCall(n, c) ==
    /\ Apply(n, accept_call(n, c), {})
    /\ last' = Record(n, "accept_call", c, NoPkt, None, None, accept_call(n, c))

EndCall(n) ==
    /\ Apply(n, end_call(n), {})
    /\ last' = Record(n, "end_call", None, NoPkt, None, None, end_call(n))

\* The recording thread of AudioManager.start_recording delivers a chunk.
SendAudio(n) ==
    /\ recording[n]
    /\ Apply(n, send_audio(n, Chunk), {})
    /\ last' = Record(n, "_send_audio", None, NoPkt, None, None, send_audio(n, Chunk))

\* The answers that matter to a packet: the dialog opens for call_request only.
RespsOf(packet) ==
    IF packet.type = "call" /\ packet.message = Str("call_request")
    THEN Resps ELSE {"none"}

\* recvfrom can return a datagram: the loop is reading, or its read
\* stayed pending when the socket was closed.
CanRead(n) == loop[n] \in {"reading", "pending"}

\* P2PNode._listen reads a datagram a node wrote and handles it.
Listen(n) ==
    \E d \in net :
        /\ d.dst = n
        /\ CanRead(n)
        /\ \E resp \in RespsOf(d.pkt) :
              /\ Received(n, listen_once(n, d.pkt, resp), {d})
              /\ last' = Record(n, "_handle_packet", None, d.pkt, d.by, resp,
                                listen_once(n, d.pkt, resp))

\* P2PNode._listen reads a datagram of another host and handles it.
ListenExternal(n) ==
    \E packet \in External(n) \cup Malformed(n) :
        \E resp \in RespsOf(packet) :
            /\ CanRead(n)
            /\ Received(n, listen_once(n, packet, resp), {})
            /\ last' = Record(n, "_handle_packet", None, packet, "external", resp,
                              listen_once(n, packet, resp))

\* P2PNode._listen: recvfrom raises on the closed socket, the exception is
\* logged and the loop, finding running False, exits.
LoopExit(n) ==
    /\ loop[n] = "raising"
    /\ loop' = [loop EXCEPT ![n] = IF running[n] THEN "raising" ELSE "exited"]
    /\ last' = Record(n, "_listen", None, NoPkt, None, None, Same(n, None))
    /\ UNCHANGED <<peers, active_connections, in_call, call_partner, recording,
                   running, closed, pyaudio, race, crypto, net>>

\* P2PNode.shutdown: running = False, end_call(), socket.close().  A read
\* of the thread of _listen that is blocked when the socket is closed
\* either raises or stays pending, as the platform has it.
shutdown_loop(l) == IF l = "reading" THEN {"raising", "pending"} ELSE {l}
Shutdown(n) ==
    \E l \in shutdown_loop(loop[n]) :
        /\ ApplyState(n, end_call(n), {})
        /\ running' = [running EXCEPT ![n] = FALSE]
        /\ closed' = [closed EXCEPT ![n] = TRUE]
        /\ loop' = [loop EXCEPT ![n] = l]
        /\ last' = Record(n, "shutdown", None, NoPkt, None, None, end_call(n))

\* A datagram in flight is lost.
Lose ==
    \E d \in net :
        /\ net' = net \ {d}
        /\ last' = [op |-> "lose", node |-> None, arg |-> None, addr |-> None,
                    pkt |-> d.pkt, by |-> d.by, resp |-> None, pre |-> NoSnap,
                    out |-> NoOut]
        /\ UNCHANGED <<peers, active_connections, in_call, call_partner, recording,
                       running, closed, loop, pyaudio, race, crypto>>

\* One node and its environment.
Next ==
    \/ \E u \in Others(Focus) : \E a \in AddrsOf(u) : AddPeer(Focus, u, a)
    \/ \E u \in Others(Focus) : RemovePeer(Focus, u)
    \/ \E r \in Others(Focus) : SendMessage(Focus, r)
    \/ \E r \in Others(Focus) : ShareLink(Focus, r)
    \/ \E r \in Others(Focus) : StartCall(Focus, r)
    \/ \E c \in Others(Focus) : AcceptCall(Focus, c)
    \/ EndCall(Focus)
    \/ SendAudio(Focus)
    \/ ListenExternal(Focus)
    \/ LoopExit(Focus)
    \/ Shutdown(Focus)
    \/ Lose

Spec == Init /\ [][Next]_vars

\* Two nodes that know each other and exchange datagrams.
Other(n) == CHOOSE m \in Nodes : m # n

NextPair ==
    \/ \E n \in Nodes : AddPeer(n, Other(n), Other(n))
    \/ \E n \in Nodes : SendMessage(n, Other(n))
    \/ \E n \in Nodes : ShareLink(n, Other(n))
    \/ \E n \in Nodes : StartCall(n, Other(n))
    \/ \E n \in Nodes : AcceptCall(n, Other(n))
    \/ \E n \in Nodes : EndCall(n)
    \/ \E n \in Nodes : SendAudio(n)
    \/ \E n \in Nodes : Listen(n)
    \/ \E n \in Nodes : LoopExit(n)
    \/ \E n \in Nodes : Shutdown(n)
    \/ Lose

SpecPair == Init /\ [][NextPair]_vars


\* ------------------------------------------------------- call session
\* The session states of a node, read off in_call and call_partner.
Idle(n) == ~in_call[n] /\ call_partner[n] = None
RingingOut(n) == ~in_call[n] /\ call_partner[n] # None
Active(n) == in_call[n]

\* The same, of the state the last operation started from.
PreIdle == ~last.pre.in_call /\ last.pre.call_partner = None
PreRingingOut == ~last.pre.in_call /\ last.pre.call_partner # None
PreActive == last.pre.in_call

\* The last step handled an inbound packet / an inbound call packet whose
\* message is the control token t.
Handled == last.op = "_handle_packet"
HandledToken(t) ==
    Handled /\ last.pkt.type = "call" /\ last.pkt.message = Str(t)

\* The last operation left the call state and audio capture as they were.
CallStateKept ==
    /\ in_call[last.node] = last.pre.in_call
    /\ call_partner[last.node] = last.pre.call_partner
    /\ recording[last.node] = last.pre.recording

\* The last operation left its node Idle with audio capture stopped.
NowIdle == Idle(last.node) /\ ~recording[last.node]

\* ---------------------------------------------------------------- claims

\* C1 (SpecPair): the call handshake.  start_call(B) from Idle with B in the
\* peer table leaves A Ringing-Out towards B with a call packet written; B,
\* Idle, handling that datagram has its call callback invoked with
\* ("incoming", A); accept_call(A) leaves B Active towards A with a packet
\* written; A, Ringing-Out towards B, handling that datagram becomes Active
\* with remote party B.
C1_Handshake ==
    /\ (last.op = "start_call" /\ PreIdle /\ Has(last.pre.peers, last.arg))
          => /\ RingingOut(last.node)
             /\ call_partner[last.node] = last.arg
             /\ \E d \in last.out.sent : d.pkt.type = "call" /\ d.dst = last.arg
    /\ (Handled /\ last.by = "start_call" /\ PreIdle)
          => last.out.cb = <<<<"incoming", last.pkt.sender>>>>
    /\ (last.op = "accept_call" /\ ~PreActive /\ Has(last.pre.peers, last.arg))
          => /\ Active(last.node)
             /\ call_partner[last.node] = last.arg
             /\ \E d \in last.out.sent : d.pkt.type = "call" /\ d.dst = last.arg
    /\ (Handled /\ last.by = "accept_call" /\ PreRingingOut
            /\ last.pre.call_partner = last.pkt.sender)
          => Active(last.node) /\ call_partner[last.node] = last.pkt.sender

\* C2: every call packet written by start_call, accept_call or end_call
\* carries the control token itself (call_request, call_accepted,
\* call_ended) in its message field.
TokenOf(op) ==
    IF op = "start_call" THEN "call_request"
    ELSE IF op = "accept_call" THEN "call_accepted" ELSE "call_ended"
C2_LiteralToken ==
    last.op \in {"start_call", "accept_call", "end_call"}
        => \A d \in last.out.sent :
               d.pkt.type = "call" => d.pkt.message = Str(TokenOf(last.op))

\* C3: an inbound call_ended or call_rejected whose sender is not the
\* current remote party changes neither the session state nor the remote
\* party and does not stop audio capture.
C3_ForeignEndIgnored ==
    ((HandledToken("call_ended") \/ HandledToken("call_rejected"))
        /\ last.pkt.sender # last.pre.call_partner)
        => CallStateKept

\* C4: from Idle, every event other than a local start_call and an inbound
\* call_request (accept_call, end_call, inbound call_accepted, call_ended,
\* call_rejected, text, link, audio) leaves the node Idle with no remote
\* party and audio capture not started.
C4_IdleTotality ==
    (PreIdle
        /\ (\/ last.op \in {"accept_call", "end_call"}
            \/ (Handled /\ ~HandledToken("call_request"))))
        => NowIdle

\* C5: a node Ringing-Out towards P that handles a call_accepted from a
\* sender other than P stays Ringing-Out towards P and starts no capture.
C5_AcceptedOnlyFromCallee ==
    (HandledToken("call_accepted") /\ PreRingingOut
        /\ last.pkt.sender # last.pre.call_partner)
        => CallStateKept

\* C6: in every reachable state a node that is in a call has a remote party.
C6_PartnerWhenInCall ==
    \A n \in Nodes : in_call[n] => call_partner[n] # None

\* C7: an inbound call_rejected from the current remote party returns the
\* session to Idle with no remote party, from any state.
C7_RejectedToIdle ==
    (HandledToken("call_rejected") /\ last.pre.call_partner # None
        /\ last.pkt.sender = last.pre.call_partner)
        => Idle(last.node)

\* C8: start_call invoked while the session is not Idle fails, writes no
\* datagram and leaves the session state and the remote party unchanged.
C8_StartCallGuard ==
    (last.op = "start_call" /\ ~PreIdle)
        => last.out.ret = "False" /\ last.out.sent = {} /\ CallStateKept

\* C9: accept_call invoked while a different remote party is associated
\* with the session fails, writes no call_accepted and leaves the session
\* state and the remote party unchanged.
C9_AcceptCallGuard ==
    (last.op = "accept_call" /\ last.pre.call_partner \notin {None, last.arg})
        => last.out.ret = "False" /\ last.out.sent = {} /\ CallStateKept

\* C10: end_call while Active writes one call_ended to the current remote
\* party when it can be transmitted, and end_call as well as an inbound
\* call_ended from the current remote party leave the node Idle with no
\* remote party and audio capture stopped.
Transmittable(table, u) == Has(table, u) /\ table[u] # BadAddr
C10_LeavingActive ==
    /\ (last.op = "end_call" /\ PreActive)
          => /\ NowIdle
             /\ Cardinality(last.out.sent) <= 1
             /\ Transmittable(last.pre.peers, last.pre.call_partner)
                   => \E d \in last.out.sent :
                         /\ d.pkt.type = "call"
                         /\ d.pkt.recipient = last.pre.call_partner
                         /\ d.pkt.message = Str("call_ended")
    /\ (HandledToken("call_ended") /\ PreActive
            /\ last.pkt.sender = last.pre.call_partner)
          => NowIdle

\* The node the last operation ran on has its peer table as before.
PeersKept ==
    /\ peers[last.node] = last.pre.peers
    /\ active_connections[last.node] = last.pre.active_connections

\* C11: end_call on an Idle node is a no-op: no datagram is written, no
\* callback is invoked, and the call state, the peer table and the
\* recording are as before.
C11_EndCallIdleNoOp ==
    (last.op = "end_call" /\ PreIdle)
        => /\ last.out.sent = {}
           /\ last.out.cb = <<>>
           /\ last.out.mcb = <<>>
           /\ CallStateKept
           /\ PeersKept
C11_Witness ==
    /\ last.op = "end_call" /\ PreIdle
    /\ Has(last.pre.peers, "B")
    /\ Idle(last.node)

\* C12: every operation (start_call, accept_call, end_call, an inbound
\* packet) that changes the call state invokes call_callback exactly once
\* with the kind of the event and the remote party.
SessionChanged ==
    \/ in_call[last.node] # last.pre.in_call
    \/ call_partner[last.node] # last.pre.call_partner
C12_TransitionCallback ==
    (last.op \in {"start_call", "accept_call", "end_call", "_handle_packet"}
        /\ SessionChanged)
        => /\ Len(last.out.cb) = 1
           /\ last.out.cb[1][2] \in {call_partner[last.node], last.pre.call_partner}

C14_AudioFrame ==
    last.op = "_send_audio"
        => /\ last.out.sent # {} => last.pre.in_call
           /\ \A d \in last.out.sent :
                  /\ d.pkt.type = "audio"
                  /\ d.pkt.recipient = last.pre.call_partner
                  /\ d.pkt.message = b64encode(Chunk)
                  /\ b64decode(d.pkt.message) = Chunk

\* C15: a text packet that send_message of one node wrote and another node
\* handles reaches message_callback as the sentinel text, never as the
\* plaintext, and a loop that was not told to stop reads on.
C15_CrossNodeText ==
    (Handled /\ last.by = "send_message" /\ last.pkt.type = "text"
        /\ last.pkt.sender # last.node)
        => /\ last.out.mcb = <<<<last.pkt.sender, DECRYPTION_FAILED, "received">>>>
           /\ last.out.mcb[1][2] # Str("hello")
           /\ last.pre.running => loop[last.node] = "reading"
C15_Witness ==
    /\ Handled /\ last.by = "send_message" /\ last.pkt.type = "text"
    /\ last.pkt.sender = "A" /\ last.node = "B"
    /\ last.pkt.message = encrypt(key("A"), Str("hello"))
    /\ last.out.mcb # <<>>
    /\ loop["B"] = "reading"

\* C16: a datagram that is no JSON, or whose packet lacks type, sender or
\* message, is dropped: the call state and the peer table are as before,
\* no callback is invoked, no recording starts or stops, nothing is
\* played, and a loop that was not told to stop reads on.
IsMalformed(packet) ==
    \/ packet = NotJson
    \/ packet.type = None
    \/ packet.sender = None
    \/ packet.message = Missing
C16_MalformedDropped ==
    (Handled /\ IsMalformed(last.pkt))
        => /\ CallStateKept
           /\ PeersKept
           /\ last.out.cb = <<>>
           /\ last.out.mcb = <<>>
           /\ last.out.played = <<>>
           /\ last.pre.running => loop[last.node] = "reading"

\* C17: send_message or share_link to a recipient that is not in peers
\* returns False, writes no datagram and leaves the peer table and the
\* call state as they were.
C17_AbsentRecipient ==
    (last.op \in {"send_message", "share_link"} /\ ~Has(last.pre.peers, last.arg))
        => /\ last.out.ret = "False"
           /\ last.out.sent = {}
           /\ CallStateKept
           /\ PeersKept
C17_Witness ==
    /\ last.op \in {"send_message", "share_link"}
    /\ ~Has(last.pre.peers, last.arg)
    /\ last.pre.peers # EmptyDict
    /\ ~last.pre.closed
    /\ last.out.ret = "False"

\* C18: when sendto raises (an address it rejects, or the socket closed
\* by shutdown), send_message and share_link return False and leave the
\* peer table and the call state as they were.
WriteFails ==
    /\ Has(last.pre.peers, last.arg)
    /\ last.pre.peers[last.arg] = BadAddr \/ last.pre.closed
C18_WriteFailure ==
    (last.op \in {"send_message", "share_link"} /\ WriteFails)
        => /\ last.out.ret = "False"
           /\ last.out.sent = {}
           /\ CallStateKept
           /\ PeersKept
C18_Witness ==
    /\ last.op \in {"send_message", "share_link"}
    /\ Has(last.pre.peers, last.arg)
    /\ last.pre.peers[last.arg] # BadAddr
    /\ last.pre.closed
    /\ last.out.ret = "False"

\* C19: after shutdown the node is Idle with the recording stopped, the
\* loop is told to stop and no longer reads on an open socket, and the
\* socket is closed; a shutdown of a node that an earlier shutdown left so
\* writes no datagram and changes nothing.
C19_Shutdown ==
    /\ last.op = "shutdown"
          => /\ NowIdle
             /\ ~running[last.node]
             /\ loop[last.node] # "reading"
             /\ closed[last.node]
    /\ (last.op = "shutdown" /\ last.pre.closed /\ ~last.pre.running
            /\ ~last.pre.in_call)
          => /\ last.out.sent = {}
             /\ CallStateKept
             /\ PeersKept
             /\ loop[last.node] = last.pre.loop

\* The loop of _listen leaves a read that raises: the thread is scheduled.
SpecFair == Spec /\ WF_vars(LoopExit(Focus))

\* C20: once shutdown has closed the socket, the loop of _listen
\* eventually exits.
C20_LoopTerminates == closed[Focus] ~> (loop[Focus] = "exited")

\* C21: while shutdown has not been called the loop of _listen does not
\* exit: whatever datagram it handled, and whatever error the read or the
\* handler met, it is reading again.
C21_LoopKeepsRunning ==
    /\ \A n \in Nodes : running[n] => loop[n] = "reading"
    /\ (Handled /\ last.pre.running)
          => running[last.node] /\ CanRead(last.node)
C21_Witness ==
    /\ Handled
    /\ last.pkt = NotJson
    /\ last.pre.running
    /\ loop[last.node] = "reading"

\* ------------------------------------------- statement by statement
\* The program takes no lock: an operation the application calls and the
\* handler of the thread of _listen run their statements interleaved.
\* The call state of node n as one value.
CallState(n) ==
    [in_call |-> in_call[n], call_partner |-> call_partner[n],
     recording |-> recording[n]]

RaceOps == {"start_call", "accept_call", "end_call", "shutdown"}
RaceToks == {"call_accepted", "call_ended"}

\* One statement of start_call, accept_call or end_call (shutdown runs
\* end_call) at position pc on call state st; ok: send_message succeeds.
\* Position 0 is the return.
op_step(op, pc, arg, ok, st) ==
    IF op = "accept_call"
    THEN IF pc = 1 THEN [pc |-> IF st.in_call THEN 0 ELSE 2, st |-> st]
         ELSE IF pc = 2 THEN [pc |-> 3, st |-> [st EXCEPT !.in_call = TRUE]]
         ELSE IF pc = 3 THEN [pc |-> 4, st |-> [st EXCEPT !.call_partner = arg]]
         ELSE [pc |-> 0,
               st |-> [st EXCEPT !.recording = IF pyaudio THEN TRUE ELSE @]]
    ELSE IF op = "start_call"
    THEN IF pc = 1 THEN [pc |-> IF st.in_call THEN 0 ELSE 2, st |-> st]
         ELSE [pc |-> 0,
               st |-> IF ok THEN [st EXCEPT !.call_partner = arg] ELSE st]
    ELSE IF pc = 1 THEN [pc |-> IF st.in_call THEN 2 ELSE 0, st |-> st]
         ELSE IF pc = 2 THEN [pc |-> 3, st |-> [st EXCEPT !.in_call = FALSE]]
         ELSE IF pc = 3 THEN [pc |-> 4, st |-> [st EXCEPT !.call_partner = None]]
         ELSE [pc |-> 0, st |-> [st EXCEPT !.recording = FALSE]]

\* One statement of the call_accepted or call_ended branch of
\* _handle_packet.
rx_step(tok, pc, st) ==
    IF tok = "call_accepted"
    THEN IF pc = 1 THEN [pc |-> 2, st |-> [st EXCEPT !.in_call = TRUE]]
         ELSE [pc |-> 0,
               st |-> [st EXCEPT !.recording = IF pyaudio THEN TRUE ELSE @]]
    ELSE IF pc = 1 THEN [pc |-> 2, st |-> [st EXCEPT !.in_call = FALSE]]
         ELSE IF pc = 2 THEN [pc |-> 3, st |-> [st EXCEPT !.call_partner = None]]
         ELSE [pc |-> 0, st |-> [st EXCEPT !.recording = FALSE]]

\* The operation, the handler, run alone from position pc to the return.
RECURSIVE op_run(_, _, _, _, _)
op_run(op, pc, arg, ok, st) ==
    IF pc = 0 THEN st
    ELSE op_run(op, op_step(op, pc, arg, ok, st).pc, arg, ok,
                op_step(op, pc, arg, ok, st).st)
RECURSIVE rx_run(_, _, _)
rx_run(tok, pc, st) ==
    IF pc = 0 THEN st
    ELSE rx_run(tok, rx_step(tok, pc, st).pc, rx_step(tok, pc, st).st)

\* The call states the two serial orders end in.
SerialResults ==
    {rx_run(race.tok, 1, op_run(race.op, 1, race.arg, race.ok, race.start)),
     op_run(race.op, 1, race.arg, race.ok, rx_run(race.tok, 1, race.start))}

\* sendto to the address of peer u succeeds.
Sendable(n, u) == Has(peers[n], u) /\ peers[n][u] # BadAddr /\ ~closed[n]

\* The statements agree with the operations taken whole.
StepwiseAgrees ==
    /\ last.op \in RaceOps
          => CallState(last.node) =
                 op_run(last.op, 1, last.arg,
                        /\ Has(last.pre.peers, last.arg)
                        /\ last.pre.peers[last.arg] # BadAddr
                        /\ ~last.pre.closed,
                        [in_call |-> last.pre.in_call,
                         call_partner |-> last.pre.call_partner,
                         recording |-> last.pre.recording])
    /\ \A t \in RaceToks :
          HandledToken(t)
              => CallState(last.node) =
                     rx_run(t, 1, [in_call |-> last.pre.in_call,
                                   call_partner |-> last.pre.call_partner,
                                   recording |-> last.pre.recording])

\* The application calls op while the thread of _listen, having read a
\* call packet with token tok, enters _handle_packet.
RaceBegin(n, op, arg, tok) ==
    /\ race.op = None
    /\ loop[n] = "reading"
    /\ race' = [op |-> op, arg |-> arg, pc |-> 1, tok |-> tok, hpc |-> 1,
                start |-> CallState(n), ok |-> Sendable(n, arg)]
    /\ UNCHANGED <<peers, active_connections, in_call, call_partner, recording,
                   running, closed, loop, pyaudio, crypto, net, last>>

\* The assignments of one statement that leaves call state st.
RaceAssign(n, st) ==
    /\ in_call' = [in_call EXCEPT ![n] = st.in_call]
    /\ call_partner' = [call_partner EXCEPT ![n] = st.call_partner]
    /\ recording' = [recording EXCEPT ![n] = st.recording]
    /\ UNCHANGED <<peers, active_connections, pyaudio, crypto, net, last>>

\* The thread of the application runs one statement.  shutdown sets
\* running False before end_call and closes the socket after it; the
\* close meets a blocked read only when the handler has returned.
RaceOpStep(n) ==
    /\ race.op # None
    /\ race.pc # 0
    /\ LET r == op_step(race.op, race.pc, race.arg, race.ok, CallState(n))
           closing == race.op = "shutdown" /\ r.pc = 0
       IN  /\ RaceAssign(n, r.st)
           /\ race' = [race EXCEPT !.pc = r.pc]
           /\ running' = [running EXCEPT ![n] = IF race.op = "shutdown" THEN FALSE ELSE @]
           /\ closed' = [closed EXCEPT ![n] = IF closing THEN TRUE ELSE @]
           /\ \E l \in (IF closing THEN shutdown_loop(loop[n]) ELSE {loop[n]}) :
                  loop' = [loop EXCEPT ![n] = IF race.hpc = 0 THEN l ELSE @]

\* The thread of _listen runs one statement of the handler; after the
\* last the loop tests running.
RaceRxStep(n) ==
    /\ race.op # None
    /\ race.hpc # 0
    /\ LET r == rx_step(race.tok, race.hpc, CallState(n))
       IN  /\ RaceAssign(n, r.st)
           /\ race' = [race EXCEPT !.hpc = r.pc]
           /\ loop' = [loop EXCEPT ![n] =
                          IF r.pc # 0 THEN @
                          ELSE IF running[n] THEN "reading" ELSE "exited"]
           /\ UNCHANGED <<running, closed>>

\* Both have returned.
RaceEnd(n) ==
    /\ race.op # None
    /\ race.pc = 0
    /\ race.hpc = 0
    /\ race' = NoRace
    /\ UNCHANGED <<peers, active_connections, in_call, call_partner, recording,
                   running, closed, loop, pyaudio, crypto, net, last>>

NextRace ==
    \/ race.op = None /\ AddPeer(Focus, "B", "B")
    \/ race.op = None /\ StartCall(Focus, "B")
    \/ race.op = None /\ AcceptCall(Focus, "B")
    \/ race.op = None /\ EndCall(Focus)
    \/ \E op \in RaceOps : \E tok \in RaceToks :
          RaceBegin(Focus, op, IF op \in {"start_call", "accept_call"} THEN "B" ELSE None, tok)
    \/ RaceOpStep(Focus)
    \/ RaceRxStep(Focus)
    \/ RaceEnd(Focus)

SpecRace == Init /\ [][NextRace]_vars

\* C22: an operation of the application (start_call, accept_call,
\* end_call) and the handler of an inbound call packet, interleaved in any
\* way, leave in_call, call_partner and recording as one of the two serial
\* orders leaves them.
RaceDone == race.op # None /\ race.pc = 0 /\ race.hpc = 0
C22_Serializable ==
    (RaceDone /\ race.op \in {"start_call", "accept_call", "end_call"})
        => CallState(Focus) \in SerialResults

\* C23: once shutdown has returned the node is in no call and records
\* nothing, also when the thread of _listen was inside the handler of a
\* call packet while shutdown ran.
C23_ShutdownDuringReceive ==
    (race.op = "shutdown" /\ race.pc = 0)
        => ~in_call[Focus] /\ ~recording[Focus]

\* C24: add_peer of a username that is in peers replaces its address,
\* keeps one entry for it and every other entry, and sets its
\* active_connections flag; remove_peer of a username that is not in
\* peers leaves peers and active_connections as they were.
C24_PeerTableIdempotence ==
    /\ (last.op = "add_peer" /\ Has(last.pre.peers, last.arg))
          => /\ peers[last.node][last.arg] = last.addr
             /\ DOMAIN peers[last.node] = DOMAIN last.pre.peers
             /\ \A u \in DOMAIN last.pre.peers \ {last.arg} :
                    peers[last.node][u] = last.pre.peers[u]
             /\ DOMAIN active_connections[last.node] = DOMAIN peers[last.node]
             /\ active_connections[last.node][last.arg] = TRUE
    /\ (last.op = "remove_peer" /\ ~Has(last.pre.peers, last.arg))
          => PeersKept
C24_Witness ==
    /\ last.op = "add_peer"
    /\ Has(last.pre.peers, last.arg)
    /\ last.pre.peers[last.arg] # last.addr
    /\ Cardinality(DOMAIN peers[last.node]) = 2

\* ---------------------------------------------------- CryptoManager
\* The symbols of the texts handed to a CryptoManager: a letter, and the
\* markers themselves, so that a plaintext can look like an encoding.
Alphabet == {"h", "b64", "fernet"}
Plaintexts == UNION {[1..l -> Alphabet] : l \in 0..MaxLen}

\* A CryptoManager of user k is handed a text.
InitCrypto ==
    /\ InitNode
    /\ crypto \in {[ctx |-> k, by |-> None, plain |-> P, text |-> P, stage |-> "plain"] :
                      k \in Users, P \in Plaintexts}

CryptoFrame ==
    UNCHANGED <<peers, active_connections, in_call, call_partner, recording,
                running, closed, loop, pyaudio, race, net, last>>

\* CryptoManager.encrypt
Encrypt ==
    /\ crypto.stage = "plain"
    /\ crypto' = [crypto EXCEPT !.text = encrypt(key(crypto.ctx), crypto.text),
                                !.by = crypto.ctx,
                                !.stage = "encrypted"]
    /\ CryptoFrame

\* The text reaches the CryptoManager of user k.
Hand(k) ==
    /\ crypto.stage \in {"plain", "encrypted"}
    /\ k # crypto.ctx
    /\ crypto' = [crypto EXCEPT !.ctx = k]
    /\ CryptoFrame

\* The token is altered on the way, so that its signature fails.
Damage ==
    /\ crypto.stage = "encrypted"
    /\ crypto' = [crypto EXCEPT !.text = [crypto.text EXCEPT ![3] = "damaged"],
                                !.by = None]
    /\ CryptoFrame

\* CryptoManager.decrypt
Decrypt ==
    /\ crypto.stage \in {"plain", "encrypted"}
    /\ crypto' = [crypto EXCEPT !.text = decrypt(key(crypto.ctx), crypto.text),
                                !.stage = IF crypto.by = crypto.ctx
                                          THEN "roundtrip" ELSE "decrypted"]
    /\ CryptoFrame

NextCrypto ==
    \/ Encrypt
    \/ \E k \in Users : Hand(k)
    \/ Damage
    \/ Decrypt

SpecCrypto == InitCrypto /\ [][NextCrypto]_vars

AppOps == {"send_message", "share_link", "start_call", "accept_call", "end_call"}
C26_FireAndForget ==
    [][/\ last'.op \in AppOps => Cardinality(last'.out.sent) <= 1
       /\ (net' \ net) \subseteq last'.out.sent
       /\ last'.op = "lose"
             => /\ net' \subseteq net
                /\ UNCHANGED <<peers, active_connections, in_call, call_partner,
                               recording, running, closed, loop>>]_vars
C26_Witness ==
    /\ last.op = "lose"
    /\ last.by = "start_call"
    /\ last.pkt.sender = "A"
    /\ RingingOut("A")
    /\ Idle("B")
    /\ net = {}

\* C27: in every reachable state a node records exactly when it is in a
\* call.
C27_CaptureIffActive == \A n \in Nodes : recording[n] <=> in_call[n]

\* C27 as the code has it: a node records exactly when it is in a call and
\* pyaudio is available; without pyaudio it never records.
C27_CaptureIffActiveWithAudio ==
    \A n \in Nodes : recording[n] <=> (in_call[n] /\ pyaudio)
C27_Witness ==
    /\ pyaudio
    /\ HandledToken("call_ended")
    /\ last.pre.in_call /\ last.pre.recording
    /\ ~in_call[last.node] /\ ~recording[last.node]

\* C28: start_call from Idle whose call_request cannot be sent (recipient
\* not in peers, or sendto raising) returns False and leaves the node Idle
\* with no call partner, as it was.
C28_StartCallFailure ==
    (last.op = "start_call" /\ PreIdle
        /\ ~(/\ Has(last.pre.peers, last.arg)
             /\ last.pre.peers[last.arg] # BadAddr
             /\ ~last.pre.closed))
        => /\ last.out.ret = "False"
           /\ last.out.sent = {}
           /\ Idle(last.node)
           /\ CallStateKept
           /\ PeersKept
C28_Witness ==
    /\ last.op = "start_call" /\ PreIdle
    /\ Has(last.pre.peers, last.arg)
    /\ last.pre.peers[last.arg] = BadAddr
    /\ last.out.ret = "False"
    /\ Idle(last.node)

\* C29: handling a text or link packet leaves the call state, the peer
\* table and the recording as they were, writes no datagram, and invokes
\* message_callback once with the sender and the decrypted text or the
\* sentinel.
TextFrame ==
    /\ CallStateKept
    /\ PeersKept
    /\ last.out.sent = {}
    /\ last.out.cb = <<>>
    /\ last.out.played = <<>>
    /\ Len(last.out.mcb) = 1
    /\ last.out.mcb[1][1] = last.pkt.sender
C29_TextLinkFrame ==
    (Handled /\ last.pkt.type \in {"text", "link"})
        => /\ TextFrame
           /\ last.out.mcb[1][2] = decrypt(key(last.node), last.pkt.message)

\* C29 as the code has it: for a link packet the text handed to
\* message_callback is "Shared link: " followed by the decrypted text or
\* the sentinel.
C29_TextLinkFrameLabelled ==
    (Handled /\ last.pkt.type \in {"text", "link"})
        => /\ TextFrame
           /\ last.out.mcb[1][2] =
                  IF last.pkt.type = "text"
                  THEN decrypt(key(last.node), last.pkt.message)
                  ELSE Str("Shared link: ") \o decrypt(key(last.node), last.pkt.message)
C29_Witness ==
    /\ Handled /\ last.pkt.type = "link"
    /\ last.pre.in_call
    /\ last.out.mcb = <<<<last.pkt.sender, Str("Shared link: ") \o DECRYPTION_FAILED,
                          "link">>>>

====
